---- MODULE Spec2Model ----
(***************************************************************************)
(* A model of the calibration core of OpenStudio-HPXML-Calibration:        *)
(*   - Calibrate.run_ga_search (the genetic search loop and its evaluate,  *)
(*     selection, hall-of-fame, logging and early-termination steps),      *)
(*   - Calibrate.compare_results / simplified_annual_usage (the comparison *)
(*     engine),                                                            *)
(*   - Calibrate.get_normalized_consumption_per_bill._calculate_wrapped_   *)
(*     total (bill window to reference-year rows),                         *)
(*   - the regression models' func / predict_disaggregated and fit_model,  *)
(*   - Calibrate.__init__'s hpxml_data_error_checking,                     *)
(*   - run_ga_search's adaptive_mutation, statement by statement.          *)
(*                                                                         *)
(* Energy values are integers (one model unit = one unit of the source's   *)
(* float, rounded at that precision).  float("nan") and float("inf") are   *)
(* the reserved values NaN and Inf; every comparison the code makes on a   *)
(* float goes through PyGt / PyLe, which are false on NaN as in Python.    *)
(***************************************************************************)
EXTENDS Integers, Sequences, FiniteSets, TLC

VARIABLES
    pc,                     \* position of run_ga_search
    cfg,                    \* the inputs of the run: fuel entries, output_filepath
    gen,                    \* loop variable of "for gen in range(1, generations + 1)"
    pop,                    \* the population (sequence of individuals)
    offspring,              \* offspring of the generation being evaluated
    elite,                  \* deep copies of the best individual(s)
    invalid_ind,            \* indices (into pop / offspring) submitted for evaluation
    fitnesses,              \* pool.map results, by submission index
    hall_of_fame,           \* tools.HallOfFame(1)
    logbook,                \* tools.Logbook
    terminated_early,
    worst_end_uses_by_gen,
    all_temp_dirs,
    fs,                     \* temp directories that exist on disk
    best_comp,              \* comparison of the generation's best individual
    evaluated,              \* history: fitness values returned by successful evaluations
    ret,                    \* what run_ga_search handed to its caller
    fit_count,              \* history: fit_model calls of the run, per fuel type
    call                    \* the last application of a pure function (other specifications)

gaVars == <<pc, cfg, gen, pop, offspring, elite, invalid_ind, fitnesses, hall_of_fame,
            logbook, terminated_early, worst_end_uses_by_gen, all_temp_dirs, fs,
            best_comp, evaluated, ret, fit_count>>
vars == <<gaVars, call>>

-----------------------------------------------------------------------------
(* Bounds of the model *)

PopulationSize == 2         \* cfg["genetic_algorithm"]["population_size"]
Generations == 2            \* cfg["genetic_algorithm"]["generations"]

-----------------------------------------------------------------------------
(* Python values *)

NaN == -1999999999
Inf == 2000000000
None == "None"

Abs(x) == IF x < 0 THEN -x ELSE x
PyAbs(x) == IF x = NaN THEN NaN ELSE Abs(x)
PyGt(a, b) == a # NaN /\ b # NaN /\ a > b
PyLe(a, b) == a # NaN /\ b # NaN /\ a <= b
IsNaN(x) == x = NaN

\* round(a / b) at the model's precision, b # 0
Round(a, b) ==
    LET n == IF b < 0 THEN -a ELSE a
        d == Abs(b)
    IN  (2 * n + d) \div (2 * d)

Min(S) == CHOOSE m \in S : \A s \in S : m <= s
Max(S) == CHOOSE m \in S : \A s \in S : m >= s

RECURSIVE SumSeq(_)
SumSeq(s) == IF s = <<>> THEN 0 ELSE Head(s) + SumSeq(Tail(s))

Range(s) == {s[i] : i \in DOMAIN s}

\* math.log1p, in units of ln 2 and truncated: floor(log2(1 + x)), x >= 0
RECURSIVE Log2Floor(_)
Log2Floor(n) == IF n <= 1 THEN 0 ELSE 1 + Log2Floor(n \div 2)
log1p(x) == Log2Floor(1 + x)

-----------------------------------------------------------------------------
(* Comparison engine *)

KwhPerMbtu == 293           \* convert_units(x, "mbtu", "kwh")
convert_mbtu_to_kwh(x) == x * KwhPerMbtu

EndUses == {"heating", "cooling", "baseload"}
DeliveredFuels == {"fuel oil", "propane", "wood", "wood pellets"}

\* consumption[end_use].sum().round(1) over the per-bill rows of one fuel
ColumnSum(rows, end_use) == SumSeq([i \in DOMAIN rows |-> rows[i][end_use]])

annual_normalized_bill_consumption(normalized_consumption, annual_model_results) ==
    [fuel_type \in DOMAIN normalized_consumption |->
        [end_use \in {e \in EndUses :
                        /\ e \in DOMAIN annual_model_results[fuel_type]
                        /\ annual_model_results[fuel_type][e] # 0} |->
            ColumnSum(normalized_consumption[fuel_type], end_use)]]

\* The bias error of one end-use as compare_results computes it
BiasErrorOf(normalized, simulated) ==
    IF normalized = 0 THEN NaN ELSE Round((normalized - simulated) * 100, normalized)

\* compare_results returns the comparison; it also rewrites the electricity entries
\* of its annual_model_results argument in place (mbtu -> kWh), so the argument
\* after the call is part of the result.
compare_results(normalized_consumption, annual_model_results) ==
    LET anbc == annual_normalized_bill_consumption(normalized_consumption,
                                                   annual_model_results)
        fuels == DOMAIN annual_model_results \cap DOMAIN anbc
        loads(f) == DOMAIN annual_model_results[f] \cap DOMAIN anbc[f]
        norm(f, l) == IF f = "electricity" THEN convert_mbtu_to_kwh(anbc[f][l])
                      ELSE anbc[f][l]
        sim(f, l) == IF f = "electricity"
                     THEN convert_mbtu_to_kwh(annual_model_results[f][l])
                     ELSE annual_model_results[f][l]
    IN  [comparison |->
            [f \in fuels |->
                [BiasError |-> [l \in loads(f) |-> BiasErrorOf(norm(f, l), sim(f, l))],
                 AbsoluteError |-> [l \in loads(f) |-> Abs(norm(f, l) - sim(f, l))]]],
         normalized |-> [f \in fuels |-> [l \in loads(f) |-> norm(f, l)]],
         annual_model_results |->
            [f \in DOMAIN annual_model_results |->
                [l \in DOMAIN annual_model_results[f] |->
                    IF f = "electricity" /\ f \in fuels /\ l \in loads(f)
                    THEN convert_mbtu_to_kwh(annual_model_results[f][l])
                    ELSE annual_model_results[f][l]]]]

\* convert_units(measured_consumption, unit, "mBtu"): <<numerator, denominator>>
UnitToMbtu(unit) ==
    CASE unit = "MBtu" -> <<1, 1>>
      [] unit = "therms" -> <<1, 10>>
      [] unit = "gal_fuel_oil" -> <<139, 1000>>
      [] unit = "gal_propane" -> <<91, 1000>>
      [] OTHER -> <<1, 1>>

\* The unit name simplified_annual_usage converts from
delivered_unit(unit, fuel) ==
    IF unit = "gal" /\ fuel = "fuel oil" THEN "gal_fuel_oil"
    ELSE IF unit = "gal" /\ fuel = "propane" THEN "gal_propane"
    ELSE unit

get(d, k, default) == IF k \in DOMAIN d THEN d[k] ELSE default

\* measured_consumption after the loop over ConsumptionInfo: it is reset for every
\* entry, so the value left is that of the last entry, as <<numerator, denominator>>
\* of an amount in MBtu.
measured_consumption(fuel, infos) ==
    LET last == infos[Len(infos)]
        u == UnitToMbtu(delivered_unit(last.UnitofMeasure, fuel))
    IN  <<SumSeq(last.Consumption) * u[1], u[2]>>

\* num_days of the entry whose FuelType is fuel
num_days(fuel, infos) ==
    LET i == CHOOSE j \in DOMAIN infos : infos[j].FuelType = fuel
    IN  infos[i].num_days

DaysPerYear == 365

\* The exceptions simplified_annual_usage can raise for one fuel
simplified_raises(fuel, model_results, tmy_dd, actual_dd, infos) ==
    LET mb == get(model_results[fuel], "baseload", 0)
        mh == get(model_results[fuel], "heating", 0)
        mc == get(model_results[fuel], "cooling", 0)
    IN  \/ fuel \notin DOMAIN model_results                      \* KeyError
        \/ mb + mh + mc = 0                                      \* ZeroDivisionError
        \/ tmy_dd[fuel].HDD65F = 0 \/ tmy_dd[fuel].CDD65F = 0    \* ZeroDivisionError
        \/ mb * num_days(fuel, infos) * tmy_dd[fuel].HDD65F * tmy_dd[fuel].CDD65F
           + mh * actual_dd[fuel].HDD65F * DaysPerYear * tmy_dd[fuel].CDD65F
           + mc * actual_dd[fuel].CDD65F * DaysPerYear * tmy_dd[fuel].HDD65F = 0

\* normalized_annual_<end_use> = annual_delivered_fuel_usage * <end_use>_fraction,
\* as the exact quotient <<numerator, denominator>>:
\*   measured * modeled / (mb * nd / 365 + mh * HDDa / HDDt + mc * CDDa / CDDt)
normalized_annual(fuel, end_use, model_results, tmy_dd, actual_dd, infos) ==
    LET mb == get(model_results[fuel], "baseload", 0)
        mh == get(model_results[fuel], "heating", 0)
        mc == get(model_results[fuel], "cooling", 0)
        ht == tmy_dd[fuel].HDD65F
        ct == tmy_dd[fuel].CDD65F
        m == measured_consumption(fuel, infos)
        d == mb * num_days(fuel, infos) * ht * ct
             + mh * actual_dd[fuel].HDD65F * DaysPerYear * ct
             + mc * actual_dd[fuel].CDD65F * DaysPerYear * ht
    IN  <<m[1] * get(model_results[fuel], end_use, 0) * DaysPerYear * ht * ct, m[2] * d>>

simplified_annual_usage(model_results, tmy_dd, actual_dd, infos) ==
    [fuel \in DOMAIN tmy_dd |->
        LET n(e) == normalized_annual(fuel, e, model_results, tmy_dd, actual_dd, infos)
            modeled(e) == get(model_results[fuel], e, 0)
            \* ((normalized - modeled) / normalized) * 100 if normalized else 0
            bias(e) == IF n(e)[1] = 0 THEN 0
                       ELSE Round((n(e)[1] - modeled(e) * n(e)[2]) * 100, n(e)[1])
            abserr(e) == Abs(Round(n(e)[1] - modeled(e) * n(e)[2], n(e)[2]))
        IN  [BiasError |-> [e \in EndUses |-> bias(e)],
             AbsoluteError |-> [e \in EndUses |-> abserr(e)]]]

-----------------------------------------------------------------------------
(* Configuration consumed by run_ga_search *)

bias_error_threshold == 5           \* cfg["acceptance_criteria"]["bias_error_threshold"]
abs_error_elec_threshold == 500     \* cfg["acceptance_criteria"]["abs_error_elec_threshold"]
abs_error_fuel_threshold == 5       \* cfg["acceptance_criteria"]["abs_error_fuel_threshold"]

NumGenes == 18
GeneIndices == 0 .. (NumGenes - 1)

param_names ==
    [i \in GeneIndices |->
        CASE i = 0 -> "misc_load_multiplier"
          [] i = 1 -> "heating_setpoint_offset"
          [] i = 2 -> "cooling_setpoint_offset"
          [] i = 3 -> "air_leakage_multiplier"
          [] i = 4 -> "heating_efficiency_multiplier"
          [] i = 5 -> "cooling_efficiency_multiplier"
          [] i = 6 -> "roof_r_value_multiplier"
          [] i = 7 -> "ceiling_r_value_multiplier"
          [] i = 8 -> "above_ground_walls_r_value_multiplier"
          [] i = 9 -> "below_ground_walls_r_value_multiplier"
          [] i = 10 -> "slab_r_value_multiplier"
          [] i = 11 -> "floor_r_value_multiplier"
          [] i = 12 -> "water_heater_efficiency_multiplier"
          [] i = 13 -> "water_fixtures_usage_multiplier"
          [] i = 14 -> "window_u_factor_multiplier"
          [] i = 15 -> "window_shgc_multiplier"
          [] i = 16 -> "appliance_usage_multiplier"
          [] i = 17 -> "lighting_load_multiplier"]

\* name_to_index restricted to a set of names
IndicesOf(names) == {i \in GeneIndices : param_names[i] \in names}

\* cfg["value_choices"]: the discrete choice list of every parameter
param_choices_map ==
    [i \in GeneIndices |-> IF i = 0 THEN {1, 2} ELSE {1}]

end_use_param_map ==
    [k \in {"electricity_heating", "electricity_cooling", "electricity_baseload",
            "natural_gas_heating", "natural_gas_baseload"} |->
        CASE k \in {"electricity_heating", "natural_gas_heating"} ->
                {"heating_setpoint_offset", "air_leakage_multiplier",
                 "heating_efficiency_multiplier", "roof_r_value_multiplier",
                 "ceiling_r_value_multiplier", "above_ground_walls_r_value_multiplier",
                 "slab_r_value_multiplier", "window_u_factor_multiplier",
                 "window_shgc_multiplier"}
          [] k = "electricity_cooling" ->
                {"cooling_setpoint_offset", "air_leakage_multiplier",
                 "cooling_efficiency_multiplier", "roof_r_value_multiplier",
                 "ceiling_r_value_multiplier", "above_ground_walls_r_value_multiplier",
                 "slab_r_value_multiplier", "window_u_factor_multiplier",
                 "window_shgc_multiplier"}
          [] k = "electricity_baseload" ->
                {"misc_load_multiplier", "appliance_usage_multiplier",
                 "lighting_load_multiplier"}
          [] k = "natural_gas_baseload" ->
                {"water_heater_efficiency_multiplier", "water_fixtures_usage_multiplier"}]

\* The fuels of model_output, in the order get_model_results inserts them, and the
\* end-uses in the order the comparison dictionaries hold them
FuelOrder == <<"electricity", "natural gas", "propane", "fuel oil", "wood cord",
               "wood pellets", "coal">>
LoadOrder == <<"heating", "cooling", "baseload">>

\* The (fuel, end-use) entries of a comparison in iteration order
RECURSIVE FlattenFrom(_, _, _)
FlattenFrom(comparison, fi, li) ==
    IF fi > Len(FuelOrder) THEN <<>>
    ELSE IF li > Len(LoadOrder) THEN FlattenFrom(comparison, fi + 1, 1)
    ELSE LET f == FuelOrder[fi]
             l == LoadOrder[li]
             here == IF f \in DOMAIN comparison /\ l \in DOMAIN comparison[f].BiasError
                     THEN <<<<f, l>>>> ELSE <<>>
         IN  here \o FlattenFrom(comparison, fi, li + 1)
Entries(comparison) == FlattenFrom(comparison, 1, 1)

-----------------------------------------------------------------------------
(* evaluate *)

NoDir == 0                          \* temp_output_dir = None
EmptyDict == <<>>

\* The error penalty of one comparison (total_score)
RECURSIVE PenaltySum(_, _)
PenaltySum(comparison, entries) ==
    IF entries = <<>> THEN 0
    ELSE LET f == Head(entries)[1]
             l == Head(entries)[2]
             bias_error == comparison[f].BiasError[l]
             abs_error == comparison[f].AbsoluteError[l]
             term == IF IsNaN(bias_error) \/ IsNaN(abs_error) THEN 0
                     ELSE log1p(Abs(bias_error)) * log1p(Abs(bias_error))
                          + log1p(Abs(abs_error)) * log1p(Abs(abs_error))
         IN  term + PenaltySum(comparison, Tail(entries))
total_score(comparison) == PenaltySum(comparison, Entries(comparison))

\* A building is what the run reads from the HPXML document and the weather files:
\*   infos: the ConsumptionInfo entries [FuelType, UnitofMeasure, Consumption, num_days]
\*   normalized_consumption: get_normalized_consumption_per_bill()
\*   tmy_dd, actual_dd: calculate_annual_degree_days()

\* InverseModel(hpxml): the bills by fuel type and an empty regression_models cache
InverseModel(building) ==
    [bills_by_fuel_type |-> [i \in DOMAIN building.infos |-> building.infos[i].FuelType],
     regression_models |-> {}]

\* InverseModel.get_model: the cached model, or a fit_model call that fills the cache
get_model(inv_model, fuel_type) ==
    IF fuel_type \in inv_model.regression_models
    THEN [inv_model |-> inv_model, fit |-> FALSE]
    ELSE [inv_model |-> [inv_model EXCEPT !.regression_models = @ \cup {fuel_type}],
          fit |-> TRUE]

RegressedFuels == {"electricity", "natural gas"}
NoFits == [f \in RegressedFuels |-> 0]

\* get_normalized_consumption_per_bill: a new InverseModel, then predict_epw_daily
\* (hence get_model) for every fuel type of the bills that is not a delivered fuel
\* acc = [inv_model, fits]
RECURSIVE normalize_from(_, _)
normalize_from(acc, i) ==
    IF i > Len(acc.inv_model.bills_by_fuel_type) THEN acc
    ELSE LET fuel_type == acc.inv_model.bills_by_fuel_type[i]
             g == get_model(acc.inv_model, fuel_type)
         IN  IF fuel_type \in DeliveredFuels THEN normalize_from(acc, i + 1)
             ELSE normalize_from(
                    [inv_model |-> g.inv_model,
                     fits |-> [acc.fits EXCEPT ![fuel_type] = @ + (IF g.fit THEN 1 ELSE 0)]],
                    i + 1)
fits_of_normalization(building) ==
    normalize_from([inv_model |-> InverseModel(building), fits |-> NoFits], 1).fits

\* The loop of evaluate over the fuel entries of the consumption section: every
\* non-delivered entry calls compare_results on the same simulation_results_copy
\* and merges the result into comparison; a delivered entry takes its comparison
\* from simplified_annual_usage.  acc = [comparison, sim, raised, fits], fits being
\* the fuel types whose regression the entries so far had fit, with their counts
RECURSIVE compare_loop(_, _, _)
compare_loop(building, i, acc) ==
    IF i > Len(building.infos) \/ acc.raised THEN acc
    ELSE LET fuel == building.infos[i].FuelType
             r == compare_results(building.normalized_consumption, acc.sim)
             merged == [f \in DOMAIN acc.comparison \cup DOMAIN r.comparison |->
                          IF f \in DOMAIN r.comparison THEN r.comparison[f]
                          ELSE acc.comparison[f]]
             s == simplified_annual_usage(acc.sim, building.tmy_dd, building.actual_dd,
                                          building.infos)
             s_raises == \E f \in DOMAIN building.tmy_dd :
                            simplified_raises(f, acc.sim, building.tmy_dd,
                                              building.actual_dd, building.infos)
             next == IF fuel \in DeliveredFuels
                     THEN IF s_raises THEN [acc EXCEPT !.raised = TRUE]
                          ELSE [acc EXCEPT !.comparison =
                                    [f \in DOMAIN acc.comparison \cup {fuel} |->
                                        IF f = fuel THEN s[fuel] ELSE acc.comparison[f]]]
                     ELSE [acc EXCEPT !.comparison = merged, !.sim = r.annual_model_results,
                                      !.fits = [f \in DOMAIN acc.fits |->
                                                   acc.fits[f] + fits_of_normalization(building)[f]]]
         IN  compare_loop(building, i + 1, next)

\* What evaluate returns.  raised: an exception was raised in the try block
\* (simulator crash, malformed output); the handler returns a 3-tuple.
evaluate(building, simulation_results, temp_output_dir, raised) ==
    LET r == compare_loop(building, 1, [comparison |-> EmptyDict,
                                        sim |-> simulation_results, raised |-> FALSE,
                                        fits |-> NoFits])
    IN  IF raised \/ r.raised THEN << <<Inf>>, EmptyDict, NoDir >>
        ELSE << <<total_score(r.comparison)>>, r.comparison, temp_output_dir, r.sim >>

\* The fit_model calls one evaluate makes; raised: the simulation failed before the
\* comparison was reached
fits_of_evaluate(building, simulation_results, raised) ==
    IF raised THEN NoFits
    ELSE compare_loop(building, 1, [comparison |-> EmptyDict, sim |-> simulation_results,
                                    raised |-> FALSE, fits |-> NoFits]).fits

abs_error_within_threshold(fuel_type, abs_error, elec_threshold, fuel_threshold) ==
    IF fuel_type = "electricity" THEN PyLe(PyAbs(abs_error), elec_threshold)
    ELSE PyLe(PyAbs(abs_error), fuel_threshold)

meets_termination_criteria(comparison) ==
    LET E == Range(Entries(comparison))
        all_bias_err_limit_met ==
            \A e \in E : ~PyGt(PyAbs(comparison[e[1]].BiasError[e[2]]), bias_error_threshold)
        all_abs_err_limit_met ==
            \A e \in E : abs_error_within_threshold(e[1], comparison[e[1]].AbsoluteError[e[2]],
                                                    abs_error_elec_threshold,
                                                    abs_error_fuel_threshold)
    IN  all_bias_err_limit_met \/ all_abs_err_limit_met

\* get_worst_abs_err_end_use: the first key with the largest absolute error
RECURSIVE WorstFrom(_, _, _, _)
WorstFrom(comparison, entries, max_abs_err, worst_end_use_key) ==
    IF entries = <<>> THEN worst_end_use_key
    ELSE LET f == Head(entries)[1]
             l == Head(entries)[2]
             a == PyAbs(comparison[f].AbsoluteError[l])
         IN  IF PyGt(a, max_abs_err)
             THEN WorstFrom(comparison, Tail(entries), a, f \o "_" \o l)
             ELSE WorstFrom(comparison, Tail(entries), max_abs_err, worst_end_use_key)
get_worst_abs_err_end_use(comparison) == WorstFrom(comparison, Entries(comparison), -Inf, None)

-----------------------------------------------------------------------------
(* Individuals and the genetic operators (DEAP) as run_ga_search registers them *)

\* creator.Individual(genes): no fitness values, no comparison yet
Individual(genes) ==
    [genes |-> genes, fitness |-> <<>>, comparison |-> EmptyDict,
     temp_output_dir |-> NoDir, sim_results |-> EmptyDict]

valid(ind) == Len(ind.fitness) # 0

\* generate_random_individual: every gene is random.choice of its own list
RECURSIVE GeneListsFrom(_)
GeneListsFrom(i) ==
    IF i = NumGenes THEN {<<>>}
    ELSE {<<v>> \o rest : v \in param_choices_map[i], rest \in GeneListsFrom(i + 1)}
generate_random_individual ==
    {Individual([i \in GeneIndices |-> l[i + 1]]) : l \in GeneListsFrom(0)}

\* toolbox.population(n)
RECURSIVE population(_)
population(n) ==
    IF n = 0 THEN {<<>>}
    ELSE {<<ind>> \o rest : ind \in generate_random_individual, rest \in population(n - 1)}

\* Fitness comparison, weights = (-1.0,): a is strictly better than b
better(a, b) == a.fitness[1] < b.fitness[1]

\* tools.selBest(individuals, 1)[0]: stable sort, the first of the best
selBest(individuals) ==
    LET i == CHOOSE j \in DOMAIN individuals :
                /\ \A k \in DOMAIN individuals : ~better(individuals[k], individuals[j])
                /\ \A k \in 1 .. (j - 1) : better(individuals[j], individuals[k])
    IN  individuals[i]

\* tools.selTournament(individuals, k, tournsize=2); aspirants[n] = the two
\* random.choice draws of the n-th tournament; max() keeps the first of equals
selTournament(individuals, aspirants) ==
    [n \in DOMAIN aspirants |->
        LET a == individuals[aspirants[n][1]]
            b == individuals[aspirants[n][2]]
        IN  IF better(b, a) THEN b ELSE a]

\* A next generation without the elite: one more offspring takes its place
next_population_no_elite(individuals, aspirants, elites) ==
    selTournament(individuals, aspirants) \o <<individuals[Len(individuals)]>>

\* A next generation whose selection is not cut down to make room for the elite
next_population_unbounded(individuals, aspirants, elites) ==
    selTournament(individuals, aspirants \o <<aspirants[1]>>) \o elites

\* pop = toolbox.select(offspring, population_size - len(elite)); pop.extend(elite)
next_population(individuals, aspirants, elites) ==
    selTournament(individuals, aspirants) \o elites

\* tools.cxUniform(ind1, ind2, indpb); swap = the indices whose draw was < indpb
cxUniform(ind1, ind2, swap) ==
    << [ind1 EXCEPT !.genes = [i \in GeneIndices |->
                                  IF i \in swap THEN ind2.genes[i] ELSE ind1.genes[i]]],
       [ind2 EXCEPT !.genes = [i \in GeneIndices |->
                                  IF i \in swap THEN ind1.genes[i] ELSE ind2.genes[i]]] >>

\* The sets of indices adaptive_mutation can end up with: the biased sample
\* (min(len, 2) of the impacted indices, when the last worst end-use has an entry in
\* end_use_param_map) plus random indices until 3 to 6 indices are chosen
MutationSizes_wide == 2 .. 7
MutationSizes == 3 .. 6
AllIndexSets == {S \in SUBSET GeneIndices : Cardinality(S) \in MutationSizes}
impacted_indices(worst_list) ==
    IF worst_list = <<>> THEN {}
    ELSE LET worst_end_use == worst_list[Len(worst_list)]
         IN  IF worst_end_use \in DOMAIN end_use_param_map
             THEN IndicesOf(end_use_param_map[worst_end_use]) ELSE {}
BiasedSampleSize(impacted) == IF Cardinality(impacted) < 2 THEN Cardinality(impacted) ELSE 2
mutation_indices(impacted) ==
    {S \in AllIndexSets : Cardinality(S \cap impacted) >= BiasedSampleSize(impacted)}

\* The loop of adaptive_mutation over the chosen indices: a chosen gene takes a
\* value of its list other than its current one, if there is one
OtherChoices_any(individual, i) == param_choices_map[i]
OtherChoices(individual, i) == param_choices_map[i] \ {individual.genes[i]}
adaptive_mutation_off_list(individual, indices, new_val) ==
    [individual EXCEPT !.genes =
        [i \in GeneIndices |->
            IF i \in indices THEN new_val[i] + 1 ELSE individual.genes[i]]]
adaptive_mutation(individual, indices, new_val) ==
    [individual EXCEPT !.genes =
        [i \in GeneIndices |->
            IF i \in indices /\ OtherChoices(individual, i) # {}
            THEN new_val[i] ELSE individual.genes[i]]]

\* Only a gene with more than one choice can change, so the mutations of an
\* individual are decided by the chosen indices among those genes
MultiChoiceGenes == {i \in GeneIndices : Cardinality(param_choices_map[i]) > 1}
ImpactedSets == {{}} \cup {IndicesOf(end_use_param_map[k]) : k \in DOMAIN end_use_param_map}
EffectiveIndices ==
    [impacted \in ImpactedSets |-> {S \cap MultiChoiceGenes : S \in mutation_indices(impacted)}]
\* The values random.choice can give the genes of E (the other genes keep theirs)
RECURSIVE NewValues(_, _)
NewValues(individual, E) ==
    IF E = {} THEN {individual.genes}
    ELSE LET i == CHOOSE j \in E : TRUE
         IN  {[g EXCEPT ![i] = v] : g \in NewValues(individual, E \ {i}),
                                    v \in OtherChoices(individual, i)}
Mutations(individual, worst_list) ==
    UNION {{adaptive_mutation(individual, E, nv) : nv \in NewValues(individual, E)} :
           E \in EffectiveIndices[impacted_indices(worst_list)]}

\* algorithms.varAnd(pop, toolbox, cxpb, mutpb), on clones of the population:
\* the pairs (0,1), (2,3), ... are mated with probability cxpb, then every
\* individual is mutated with probability mutpb; whatever was mated or mutated
\* loses its fitness values.
invalidate(ind) == [ind EXCEPT !.fitness = <<>>]
DiffGenes(a, b) == {i \in GeneIndices : a.genes[i] # b.genes[i]}
Mated(a, b) ==
    {<<a, b>>} \cup
    {<<invalidate(cxUniform(a, b, swap)[1]), invalidate(cxUniform(a, b, swap)[2])>> :
        swap \in SUBSET DiffGenes(a, b)}
RECURSIVE Crossovers(_, _)
Crossovers(individuals, i) ==
    IF i > Len(individuals) THEN {<<>>}
    ELSE IF i = Len(individuals) THEN {<<individuals[i]>>}
    ELSE {pair \o rest : pair \in Mated(individuals[i], individuals[i + 1]),
                         rest \in Crossovers(individuals, i + 2)}
MaybeMutated(ind, worst_list) ==
    {ind} \cup {invalidate(m) : m \in Mutations(ind, worst_list)}
RECURSIVE MutateAll(_, _, _)
MutateAll(individuals, i, worst_list) ==
    IF i > Len(individuals) THEN {<<>>}
    ELSE {<<m>> \o rest : m \in MaybeMutated(individuals[i], worst_list),
                          rest \in MutateAll(individuals, i + 1, worst_list)}
varAnd(individuals, worst_list) ==
    UNION {MutateAll(c, 1, worst_list) : c \in Crossovers(individuals, 1)}

\* HallOfFame(1).update(population): an individual enters when the hall is empty
\* (then population[0] is inserted) or when it is strictly better than the member
\* and not equal (same genes) to it
RECURSIVE hof_update(_, _, _)
hof_update(hof, individuals, i) ==
    IF i > Len(individuals) THEN hof
    ELSE IF Len(hof) = 0 THEN hof_update(<<individuals[1]>>, individuals, i + 1)
    ELSE IF better(individuals[i], hof[1]) /\ individuals[i].genes # hof[1].genes
         THEN hof_update(<<individuals[i]>>, individuals, i + 1)
         ELSE hof_update(hof, individuals, i + 1)

\* stats.compile(pop) and diversity(pop): the fields of one logbook record
diversity(individuals) ==
    <<Cardinality({individuals[i].genes : i \in DOMAIN individuals}), Len(individuals)>>
record_gen0(g, nevals, individuals) ==
    [gen |-> 0, nevals |-> nevals,
     min |-> Min({individuals[i].fitness[1] : i \in DOMAIN individuals})]
record(g, nevals, individuals) ==
    [gen |-> g, nevals |-> nevals,
     min |-> Min({individuals[i].fitness[1] : i \in DOMAIN individuals})]

-----------------------------------------------------------------------------
(* The inputs of a run *)

Info(fuel, unit, consumption, days) ==
    [FuelType |-> fuel, UnitofMeasure |-> unit, Consumption |-> consumption,
     num_days |-> days]
Row(b, h, c) == [baseload |-> b, heating |-> h, cooling |-> c]

ElecRows == <<Row(6, 0, 0), Row(4, 0, 0)>>
GasRows == <<Row(0, 30, 0), Row(0, 22, 0)>>
OilDD == [HDD65F |-> 2, CDD65F |-> 1]
OilActualDD == [HDD65F |-> 3, CDD65F |-> 1]

ElectricBuilding ==
    [infos |-> <<Info("electricity", "kWh", <<300, 310>>, 365)>>,
     normalized_consumption |-> ("electricity" :> ElecRows),
     tmy_dd |-> EmptyDict, actual_dd |-> EmptyDict]
GasBuilding ==
    [infos |-> <<Info("electricity", "kWh", <<300, 310>>, 365),
                 Info("natural gas", "therms", <<40, 35>>, 365)>>,
     normalized_consumption |-> ("electricity" :> ElecRows) @@ ("natural gas" :> GasRows),
     tmy_dd |-> EmptyDict, actual_dd |-> EmptyDict]
OilBuilding ==
    [infos |-> <<Info("electricity", "kWh", <<300, 310>>, 365),
                 Info("fuel oil", "MBtu", <<6, 6>>, 365)>>,
     normalized_consumption |-> ("electricity" :> ElecRows),
     tmy_dd |-> ("fuel oil" :> OilDD), actual_dd |-> ("fuel oil" :> OilActualDD)]
Buildings == {ElectricBuilding, GasBuilding}

\* What the simulation engine can write for an individual (get_model_results)
SimResult(elec) ==
    ("electricity" :> elec) @@
    ("natural gas" :> (("heating" :> 50) @@ ("baseload" :> 26))) @@
    ("fuel oil" :> (("heating" :> 8) @@ ("baseload" :> 2)))
SimOutputs ==
    {SimResult(("baseload" :> 10)), SimResult(("baseload" :> 12)),
     SimResult(("baseload" :> 10) @@ ("cooling" :> 4)),
     SimResult(("baseload" :> 11)),
     SimResult(("baseload" :> 11) @@ ("cooling" :> 4))}

\* The parameter lists an individual can hold; the simulation is a function of them
GeneLists == {ind.genes : ind \in generate_random_individual}

OutputPaths == {None, "output_dir"}

-----------------------------------------------------------------------------
(* run_ga_search *)

\* mkdtemp: a fresh name for the evaluation of task i of generation g
TempDir(g, i) == g * PopulationSize + i

Pending == <<>>
AllReturned == \A i \in DOMAIN fitnesses : fitnesses[i] # Pending

\* "for ind, (fit, comp, temp_dir, sim_results) in zip(invalid_ind, fitnesses)":
\* the individuals after the assignments, up to the first result that does not
\* unpack into four values
FirstBad(results) ==
    IF \E i \in DOMAIN results : Len(results[i]) # 4
    THEN Min({i \in DOMAIN results : Len(results[i]) # 4})
    ELSE Len(results) + 1
assign_reversed(individuals, submitted, results) ==
    [j \in DOMAIN individuals |->
        IF \E i \in 1 .. (FirstBad(results) - 1) : submitted[i] = j
        THEN LET i == CHOOSE k \in DOMAIN submitted : submitted[k] = j
                 r == IF FirstBad(results) > Len(results)
                      THEN Len(results) + 1 - i ELSE i
             IN  [individuals[j] EXCEPT !.fitness = results[r][1],
                                        !.comparison = results[r][2],
                                        !.temp_output_dir = results[r][3],
                                        !.sim_results = results[r][4]]
        ELSE individuals[j]]
assign(individuals, submitted, results) ==
    [j \in DOMAIN individuals |->
        IF \E i \in 1 .. (FirstBad(results) - 1) : submitted[i] = j
        THEN LET i == CHOOSE k \in DOMAIN submitted : submitted[k] = j
             IN  [individuals[j] EXCEPT !.fitness = results[i][1],
                                        !.comparison = results[i][2],
                                        !.temp_output_dir = results[i][3],
                                        !.sim_results = results[i][4]]
        ELSE individuals[j]]
AssignedDirs(results) == {results[i][3] : i \in 1 .. (FirstBad(results) - 1)}
AssignedFitness(results) == {results[i][1][1] : i \in 1 .. (FirstBad(results) - 1)}

\* [ind for ind in individuals if not ind.fitness.valid], as indices
RECURSIVE InvalidFrom(_, _)
InvalidFrom(individuals, i) ==
    IF i > Len(individuals) THEN <<>>
    ELSE (IF valid(individuals[i]) THEN <<>> ELSE <<i>>) \o InvalidFrom(individuals, i + 1)
Invalid_all(individuals) == [i \in DOMAIN individuals |-> i]
Invalid(individuals) == InvalidFrom(individuals, 1)

NoReturn == [status |-> "running"]

NoCall == [fn |-> "none"]

\* A run's building and what the simulation gives for each parameter list
Configs == [building : Buildings, simulate : [GeneLists -> SimOutputs]]
\* The object whose methods are called outside a search
IdleConfigs == {c \in Configs : c.building = ElectricBuilding
                                /\ \A g \in GeneLists : c.simulate[g] = SimResult(("baseload" :> 10))}

\* The variables of run_ga_search before the first statement of a run
GAInit(position, configs) ==
    /\ pc = position
    /\ cfg \in configs
    /\ gen = 0
    /\ pop = <<>>
    /\ offspring = <<>>
    /\ elite = <<>>
    /\ invalid_ind = <<>>
    /\ fitnesses = <<>>
    /\ hall_of_fame = <<>>
    /\ logbook = <<>>
    /\ terminated_early = FALSE
    /\ worst_end_uses_by_gen = <<>>
    /\ all_temp_dirs = {}
    /\ fs = {}
    /\ best_comp = EmptyDict
    /\ evaluated = {}
    /\ ret = NoReturn
    /\ fit_count = NoFits

Init ==
    /\ GAInit("start", Configs)
    /\ call = NoCall

\* pop = toolbox.population(n=population_size); the initial evaluation is submitted
InitialPopulation ==
    /\ pc = "start"
    /\ \E p \in population(PopulationSize) :
        /\ pop' = p
        /\ invalid_ind' = Invalid(p)
        /\ fitnesses' = [i \in DOMAIN Invalid(p) |-> Pending]
    /\ pc' = "evaluate0"
    /\ UNCHANGED <<cfg, gen, offspring, elite, hall_of_fame, logbook, terminated_early,
                   worst_end_uses_by_gen, all_temp_dirs, fs, best_comp, evaluated, ret, call, fit_count>>

\* One worker of the pool runs evaluate on one submitted individual to completion
Worker(i) ==
    /\ pc \in {"evaluate0", "evaluate"}
    /\ i \in DOMAIN fitnesses
    /\ fitnesses[i] = Pending
    /\ \E raised \in BOOLEAN :
        LET submitted == IF pc = "evaluate0" THEN pop[invalid_ind[i]]
                         ELSE offspring[invalid_ind[i]]
        IN  /\ fitnesses' = [fitnesses EXCEPT
                    ![i] = evaluate(cfg.building, cfg.simulate[submitted.genes],
                                    TempDir(gen, i), raised)]
            /\ fit_count' =
                    [f \in RegressedFuels |->
                        fit_count[f] + fits_of_evaluate(cfg.building,
                                            cfg.simulate[submitted.genes], raised)[f]]
    /\ fs' = fs \cup {TempDir(gen, i)}
    /\ UNCHANGED <<pc, cfg, gen, pop, offspring, elite, invalid_ind, hall_of_fame, logbook,
                   terminated_early, worst_end_uses_by_gen, all_temp_dirs, best_comp,
                   evaluated, ret, call>>

\* A result that does not unpack raises ValueError out of run_ga_search
RaiseValueError ==
    /\ pc' = "raised"
    /\ ret' = [status |-> "raised", exception |-> "ValueError"]

\* The initial evaluation is joined, the hall of fame updated, generation 0 logged
JoinInitial ==
    /\ pc = "evaluate0"
    /\ AllReturned
    /\ LET p == assign(pop, invalid_ind, fitnesses)
           ok == FirstBad(fitnesses) > Len(fitnesses)
       IN  /\ pop' = p
           /\ all_temp_dirs' = all_temp_dirs \cup (AssignedDirs(fitnesses) \ {NoDir})
           /\ evaluated' = evaluated \cup AssignedFitness(fitnesses)
           /\ IF ok
              THEN /\ hall_of_fame' = hof_update(hall_of_fame, p, 1)
                   /\ best_comp' = selBest(p).comparison
                   /\ logbook' = Append(logbook, record(0, Len(invalid_ind), p))
                   /\ pc' = IF Generations >= 1 THEN "loop" ELSE "finish"
                   /\ ret' = ret
              ELSE /\ RaiseValueError
                   /\ UNCHANGED <<hall_of_fame, best_comp, logbook>>
    /\ UNCHANGED <<cfg, gen, offspring, elite, invalid_ind, fitnesses, terminated_early,
                   worst_end_uses_by_gen, fs, call, fit_count>>

\* Head of the generation loop: elitism, varAnd, submission of the invalid offspring
Vary ==
    /\ pc = "loop"
    /\ gen' = gen + 1
    /\ elite' = <<selBest(pop)>>
    /\ \E o \in varAnd(pop, worst_end_uses_by_gen) :
        /\ offspring' = o
        /\ invalid_ind' = Invalid(o)
        /\ fitnesses' = [i \in DOMAIN Invalid(o) |-> Pending]
    /\ pc' = "evaluate"
    /\ UNCHANGED <<cfg, pop, hall_of_fame, logbook, terminated_early, worst_end_uses_by_gen,
                   all_temp_dirs, fs, best_comp, evaluated, ret, call, fit_count>>

\* The offspring are joined; then worst end-use, selection, elitism, hall of fame,
\* log record and the early-termination check
JoinGeneration ==
    /\ pc = "evaluate"
    /\ AllReturned
    /\ LET o == assign(offspring, invalid_ind, fitnesses)
           ok == FirstBad(fitnesses) > Len(fitnesses)
       IN  /\ offspring' = o
           /\ all_temp_dirs' = all_temp_dirs \cup AssignedDirs(fitnesses)
           /\ evaluated' = evaluated \cup AssignedFitness(fitnesses)
           /\ IF ok
              THEN /\ worst_end_uses_by_gen' =
                        IF invalid_ind # <<>>
                        THEN Append(worst_end_uses_by_gen,
                                    get_worst_abs_err_end_use(o[invalid_ind[1]].comparison))
                        ELSE worst_end_uses_by_gen
                   /\ \E aspirants \in [1 .. (PopulationSize - Len(elite)) ->
                                            (DOMAIN o) \X (DOMAIN o)] :
                        LET p == next_population(o, aspirants, elite)
                            best_ind == selBest(p)
                        IN  /\ pop' = p
                            /\ hall_of_fame' = hof_update(hall_of_fame, p, 1)
                            /\ best_comp' = best_ind.comparison
                            /\ logbook' = Append(logbook, record(gen, Len(invalid_ind), p))
                            /\ terminated_early' =
                                    meets_termination_criteria(best_ind.comparison)
                            /\ pc' = IF meets_termination_criteria(best_ind.comparison)
                                        \/ gen = Generations
                                     THEN "finish" ELSE "loop"
                   /\ ret' = ret
              ELSE /\ RaiseValueError
                   /\ UNCHANGED <<pop, hall_of_fame, best_comp, logbook, terminated_early,
                                  worst_end_uses_by_gen>>
    /\ UNCHANGED <<cfg, gen, elite, invalid_ind, fitnesses, fs, call, fit_count>>

\* After the loop: the best individual's model file is copied out, the temp
\* directories are removed, the results are returned
Finish ==
    /\ pc = "finish"
    /\ \E output_filepath \in OutputPaths :
       LET best_individual == hall_of_fame[1]
           best_individual_hpxml_exists == best_individual.temp_output_dir \in fs
       IN  IF best_individual_hpxml_exists /\ output_filepath = None
           THEN \* output_filepath / "best_individual.xml" with output_filepath = None
                /\ pc' = "raised"
                /\ ret' = [status |-> "raised", exception |-> "TypeError"]
                /\ fs' = fs
           ELSE /\ pc' = "done"
                /\ fs' = fs \ all_temp_dirs
                /\ ret' = [status |-> "returned",
                           best_individual_dict |-> best_individual.genes,
                           pop |-> pop, logbook |-> logbook]
    /\ UNCHANGED <<cfg, gen, pop, offspring, elite, invalid_ind, fitnesses, hall_of_fame,
                   logbook, terminated_early, worst_end_uses_by_gen, all_temp_dirs,
                   best_comp, evaluated, call, fit_count>>

Next ==
    \/ InitialPopulation
    \/ \E i \in 1 .. PopulationSize : Worker(i)
    \/ JoinInitial
    \/ Vary
    \/ JoinGeneration
    \/ Finish

Spec == Init /\ [][Next]_vars

-----------------------------------------------------------------------------
(* Bill window -> reference-year rows (get_normalized_consumption_per_bill) *)

DaysInYear == 365
Columns == <<"baseload", "heating", "cooling">>

\* epw_daily_mbtu: one row per day of the reference year; position p (0-based)
\* holds day p + 1
epw_daily_mbtu(p) ==
    Row(1, IF p < 90 \/ p >= 300 THEN 2 ELSE 0, IF p >= 150 /\ p < 250 THEN 3 ELSE 0)

\* epw_daily_mbtu.iloc[lo:hi].sum(): a Series, one <<label, value>> per column
RECURSIVE SlicedSum(_, _, _)
SlicedSum(column, lo, hi) ==
    IF lo >= hi \/ lo >= DaysInYear THEN 0
    ELSE IF hi - lo = 1 THEN epw_daily_mbtu(lo)[column]
    ELSE LET mid == lo + ((hi - lo) \div 2)
         IN  SlicedSum(column, lo, mid) + SlicedSum(column, mid, hi)
iloc_sum(lo, hi) == [c \in DOMAIN Columns |-> <<Columns[c], SlicedSum(Columns[c], lo, hi)>>]

\* subset[~subset.index.duplicated()]: an entry is kept when its label did not
\* occur before it
RECURSIVE SelectSeqIdx(_, _)
SelectSeqIdx(series, i) ==
    IF i > Len(series) THEN <<>>
    ELSE (IF \E j \in 1 .. (i - 1) : series[j][1] = series[i][1] THEN <<>>
          ELSE <<series[i]>>) \o SelectSeqIdx(series, i + 1)
drop_duplicated_index(series) == SelectSeqIdx(series, 1)

calculate_wrapped_total(start, end) ==
    IF start <= end THEN iloc_sum(start, end)
    ELSE LET part1 == iloc_sum(start, DaysInYear)
             part2 == iloc_sum(0, end)
         IN  drop_duplicated_index(part1 \o part2)

\* start_day_of_year = dayofyear(start_date), end_day_of_year = dayofyear(end_date) - 1
SampleDays == {1, 2, 15, 16, 31, 32, 181, 349, 350, 351, 364, 365}
BillWindows == SampleDays \X (SampleDays \cup {0})

InitWrap ==
    /\ GAInit("idle", IdleConfigs)
    /\ \E w \in BillWindows :
        call = [fn |-> "_calculate_wrapped_total", start |-> w[1], end |-> w[2],
                returned |-> FALSE, result |-> <<>>]

CallWrappedTotal ==
    /\ call.fn = "_calculate_wrapped_total"
    /\ ~call.returned
    /\ call' = [call EXCEPT !.returned = TRUE,
                            !.result = calculate_wrapped_total(call.start, call.end)]
    /\ UNCHANGED gaVars

NextWrap == CallWrappedTotal
SpecWrap == InitWrap /\ [][NextWrap]_vars

-----------------------------------------------------------------------------
(* The comparison engine on its own *)

CompareInputs ==
    {[fn |-> "compare_results",
      normalized_consumption |-> nc, annual_model_results |-> SimResult(elec),
      returned |-> FALSE, result |-> <<>>] :
        nc \in {("electricity" :> <<Row(b, 0, 0), Row(0, 0, c)>>) @@ gas :
                    b \in {0, 10, 12}, c \in {0, 4},
                    gas \in {EmptyDict, ("natural gas" :> GasRows)}},
        elec \in {("baseload" :> sb) @@ ("cooling" :> sc) : sb \in {10, 12}, sc \in {0, 4}}}

OilInfos == <<Info("electricity", "kWh", <<300, 310>>, 365),
              Info("fuel oil", "MBtu", <<6, 6>>, 365)>>
\* The same entries with the delivered fuel first
OilInfosReversed == <<OilInfos[2], OilInfos[1]>>
SimplifiedInputs ==
    {[fn |-> "simplified_annual_usage",
      model_results |-> ("fuel oil" :> (("baseload" :> mb) @@ ("heating" :> mh)
                                        @@ ("cooling" :> mc))),
      tmy_dd |-> ("fuel oil" :> [HDD65F |-> 2, CDD65F |-> ct]),
      actual_dd |-> ("fuel oil" :> [HDD65F |-> 3, CDD65F |-> 1]),
      infos |-> infos,
      returned |-> FALSE, result |-> <<>>] :
        mb \in {0, 2}, mh \in {0, 8}, mc \in {0, 3}, ct \in {0, 1},
        infos \in {OilInfos, OilInfosReversed}}

InitCompare ==
    /\ GAInit("idle", IdleConfigs)
    /\ call \in CompareInputs \cup SimplifiedInputs

CallCompareResults ==
    /\ call.fn = "compare_results"
    /\ ~call.returned
    /\ call' = [call EXCEPT
            !.returned = TRUE,
            !.result = [raised |-> FALSE] @@
                       compare_results(call.normalized_consumption,
                                       call.annual_model_results)]
    /\ UNCHANGED gaVars

CallSimplifiedAnnualUsage ==
    /\ call.fn = "simplified_annual_usage"
    /\ ~call.returned
    /\ LET raises == \E f \in DOMAIN call.tmy_dd :
                        simplified_raises(f, call.model_results, call.tmy_dd,
                                          call.actual_dd, call.infos)
       IN  call' = [call EXCEPT
            !.returned = TRUE,
            !.result =
                IF raises THEN [raised |-> TRUE]
                ELSE [raised |-> FALSE,
                      comparison |-> simplified_annual_usage(call.model_results,
                                        call.tmy_dd, call.actual_dd, call.infos),
                      normalized |->
                        [f \in DOMAIN call.tmy_dd |->
                            [e \in EndUses |->
                                normalized_annual(f, e, call.model_results, call.tmy_dd,
                                                  call.actual_dd, call.infos)[1]]],
                      measured |->
                        [f \in DOMAIN call.tmy_dd |->
                            measured_consumption(f, call.infos)]]]
    /\ UNCHANGED gaVars

NextCompare == CallCompareResults \/ CallSimplifiedAnnualUsage
SpecCompare == InitCompare /\ [][NextCompare]_vars

-----------------------------------------------------------------------------
(* Regression models: func and predict_disaggregated *)

MaxTemps == 2               \* longest temperature vector tried

MinOf(a, b) == IF a < b THEN a ELSE b
MaxOf(a, b) == IF a > b THEN a ELSE b

\* ThreeParameterCooling.func / ThreeParameterHeating.func / FiveParameter.func
func(variant, x, b) ==
    CASE variant = "3-parameter Cooling" -> b[1] + b[2] * MaxOf(x - b[3], 0)
      [] variant = "3-parameter Heating" -> b[1] + b[2] * MinOf(x - b[3], 0)
      [] variant = "5-parameter" ->
            b[1] + b[2] * MinOf(x - b[4], 0) + b[3] * MaxOf(x - b[5], 0)

\* BOUNDS of the three classes: <<lb, ub>>, Inf standing for np.inf
BOUNDS(variant) ==
    CASE variant = "3-parameter Cooling" -> << <<0, 0, 40>>, <<Inf, Inf, 90>> >>
      [] variant = "3-parameter Heating" -> << <<0, -Inf, 40>>, <<Inf, 0, 90>> >>
      [] variant = "5-parameter" ->
            << <<0, -Inf, 0, 40, 40>>, <<Inf, 0, Inf, 90, 90>> >>

\* A disaggregation whose heating and cooling terms lost their hinge
predict_disaggregated_linear(variant, x, b) ==
    CASE variant = "3-parameter Cooling" ->
            [baseload |-> 1 * b[1], heating |-> 0, cooling |-> b[2] * (x - b[3])]
      [] variant = "3-parameter Heating" ->
            [baseload |-> 1 * b[1], heating |-> b[2] * (x - b[3]), cooling |-> 0]
      [] variant = "5-parameter" ->
            [baseload |-> 1 * b[1], heating |-> b[2] * (x - b[4]),
             cooling |-> b[3] * (x - b[5])]

\* A disaggregation whose heating term uses the cooling hinge
predict_disaggregated_hinge(variant, x, b) ==
    CASE variant = "3-parameter Cooling" ->
            [baseload |-> 1 * b[1], heating |-> 0, cooling |-> b[2] * MaxOf(x - b[3], 0)]
      [] variant = "3-parameter Heating" ->
            [baseload |-> 1 * b[1], heating |-> b[2] * MaxOf(x - b[3], 0), cooling |-> 0]
      [] variant = "5-parameter" ->
            [baseload |-> 1 * b[1], heating |-> b[2] * MaxOf(x - b[4], 0),
             cooling |-> b[3] * MaxOf(x - b[5], 0)]

\* predict_disaggregated of the three classes, for one temperature
predict_disaggregated(variant, x, b) ==
    CASE variant = "3-parameter Cooling" ->
            [baseload |-> 1 * b[1], heating |-> 0, cooling |-> b[2] * MaxOf(x - b[3], 0)]
      [] variant = "3-parameter Heating" ->
            [baseload |-> 1 * b[1], heating |-> b[2] * MinOf(x - b[3], 0), cooling |-> 0]
      [] variant = "5-parameter" ->
            [baseload |-> 1 * b[1], heating |-> b[2] * MinOf(x - b[4], 0),
             cooling |-> b[3] * MaxOf(x - b[5], 0)]

SampleTemps == {30, 65, 70, 95}
RECURSIVE TempVectors(_)
TempVectors(n) ==
    IF n = 0 THEN {<<>>}
    ELSE TempVectors(n - 1) \cup
         {Append(v, t) : v \in {w \in TempVectors(n - 1) : Len(w) = n - 1}, t \in SampleTemps}

ThreeParams == {<<b1, b2, b3>> : b1 \in {0, 3}, b2 \in {-2, 0, 2}, b3 \in {40, 65, 95}}
FiveParams ==
    {<<b1, b2, b3, b4, b5>> : b1 \in {0, 3}, b2 \in {-2, 0, 2}, b3 \in {-1, 0, 2},
                              b4 \in {40, 65}, b5 \in {60, 90}}
RegressionInputs ==
    {[fn |-> "predict_disaggregated", variant |-> v, parameters |-> b, temperatures |-> t,
      returned |-> FALSE, disaggregated |-> <<>>, predicted |-> <<>>] :
        v \in {"3-parameter Cooling", "3-parameter Heating"}, b \in ThreeParams,
        t \in TempVectors(MaxTemps)}
    \cup
    {[fn |-> "predict_disaggregated", variant |-> "5-parameter", parameters |-> b,
      temperatures |-> t, returned |-> FALSE, disaggregated |-> <<>>, predicted |-> <<>>] :
        b \in FiveParams, t \in TempVectors(MaxTemps)}

InitRegression ==
    /\ GAInit("idle", IdleConfigs)
    /\ call \in RegressionInputs

CallPredictDisaggregated ==
    /\ call.fn = "predict_disaggregated"
    /\ ~call.returned
    /\ call' = [call EXCEPT
            !.returned = TRUE,
            !.disaggregated = [i \in DOMAIN call.temperatures |->
                predict_disaggregated(call.variant, call.temperatures[i], call.parameters)],
            !.predicted = [i \in DOMAIN call.temperatures |->
                func(call.variant, call.temperatures[i], call.parameters)]]
    /\ UNCHANGED gaVars

NextRegression == CallPredictDisaggregated
SpecRegression == InitRegression /\ [][NextRegression]_vars

-----------------------------------------------------------------------------
(* fit_model: the best of the three candidate regressions *)

models_to_try == <<"3-parameter Cooling", "3-parameter Heating", "5-parameter">>

\* n_parameters = len(INITIAL_GUESSES) of a class
n_parameters(variant) == Len(BOUNDS(variant)[1])

\* The integer part of a square root
Isqrt(n) == CHOOSE r \in 0 .. n : r * r <= n /\ (r + 1) * (r + 1) > n

\* y.mean() of the bills the candidates are fit to
MeanDailyConsumption == 10

\* calc_cvrmse in percent: sqrt(sum((y - y_hat)^2) / (n - n_parameters)) / y.mean(),
\* as IEEE arithmetic gives it: x/0 is inf, 0/0 is nan, the root of a negative is nan
calc_cvrmse(sse, n, variant) ==
    LET d == n - n_parameters(variant)
    IN  IF d = 0 THEN (IF sse = 0 THEN NaN ELSE Inf)
        ELSE IF d < 0 THEN (IF sse = 0 THEN 0 ELSE NaN)
        ELSE (Isqrt((sse * 100) \div d) * 100) \div MeanDailyConsumption

PyLt(a, b) == ~IsNaN(a) /\ ~IsNaN(b) /\ a < b

\* min(models, key=...): the first model that no later one is strictly less than
RECURSIVE MinByKey(_, _, _, _)
MinByKey(models, key, best, i) ==
    IF i > Len(models) THEN best
    ELSE MinByKey(models, key,
                  IF PyLt(key[models[i]], key[best]) THEN models[i] ELSE best, i + 1)

\* max instead of min
RECURSIVE MaxByKey(_, _, _, _)
MaxByKey(models, key, best, i) ==
    IF i > Len(models) THEN best
    ELSE MaxByKey(models, key,
                  IF PyLt(key[best], key[models[i]]) THEN models[i] ELSE best, i + 1)

\* The loop over models_to_try: the candidates that fit, in order, up to the end of
\* the list or to the first candidate whose fit raises something the loop re-raises
RECURSIVE TryFrom(_, _)
TryFrom(fits, i) ==
    IF i > Len(models_to_try) THEN [models |-> <<>>, raised |-> "none"]
    ELSE CASE fits[i].status = "fit" ->
                LET rest == TryFrom(fits, i + 1)
                IN  [rest EXCEPT !.models = <<i>> \o rest.models]
           [] fits[i].status = "max_evaluations_exceeded" -> TryFrom(fits, i + 1)
           [] OTHER -> [models |-> <<>>, raised |-> fits[i].status]

BpiThreshold == 20      \* 0.2, in percent

\* A selection that keeps the worst candidate
fit_model_worst(fits, n, bpi2400) ==
    LET tried == TryFrom(fits, 1)
        key == [i \in DOMAIN fits |->
                    IF fits[i].status = "fit"
                    THEN calc_cvrmse(fits[i].sse, n, models_to_try[i]) ELSE NaN]
    IN  IF tried.raised # "none" THEN [outcome |-> "raised", exception |-> tried.raised]
        ELSE IF tried.models = <<>>
        THEN [outcome |-> "raised", exception |-> "ValueError"]
        ELSE LET best_model == MaxByKey(tried.models, key, tried.models[1], 2)
             IN  IF bpi2400 /\ PyGt(key[best_model], BpiThreshold)
                 THEN [outcome |-> "raised", exception |-> "Bpi2400ModelFitError"]
                 ELSE [outcome |-> "returned", model |-> best_model,
                       cvrmse |-> key[best_model]]

\* A loop in which a candidate that does not converge ends the whole fit
fit_model_abort(fits, n, bpi2400) ==
    IF \E i \in DOMAIN fits : fits[i].status = "max_evaluations_exceeded"
    THEN [outcome |-> "raised", exception |-> "RuntimeError"]
    ELSE fit_model_worst(fits, n, FALSE)

\* fit_model(bills_temps, bpi2400): fits[i] is what model.fit does for candidate i,
\* n the number of bills
fit_model(fits, n, bpi2400) ==
    LET tried == TryFrom(fits, 1)
        key == [i \in DOMAIN fits |->
                    IF fits[i].status = "fit"
                    THEN calc_cvrmse(fits[i].sse, n, models_to_try[i]) ELSE NaN]
    IN  IF tried.raised # "none" THEN [outcome |-> "raised", exception |-> tried.raised]
        ELSE IF tried.models = <<>>
        THEN \* min() of an empty list
             [outcome |-> "raised", exception |-> "ValueError"]
        ELSE LET best_model == MinByKey(tried.models, key, tried.models[1], 2)
             IN  IF bpi2400 /\ PyGt(key[best_model], BpiThreshold)
                 THEN [outcome |-> "raised", exception |-> "Bpi2400ModelFitError"]
                 ELSE [outcome |-> "returned", model |-> best_model,
                       cvrmse |-> key[best_model]]

\* What model.fit (scipy curve_fit, method trf) can do for one candidate
FitOutcomes ==
    {[status |-> "fit", sse |-> e] : e \in {0, 4, 36}}
    \cup {[status |-> st, sse |-> 0] : st \in {"max_evaluations_exceeded", "ValueError"}}
NumBills == {3, 4, 6, 12}
FitInputs ==
    {[fn |-> "fit_model", fits |-> f, n |-> n, bpi2400 |-> b,
      returned |-> FALSE, result |-> <<>>] :
        f \in [DOMAIN models_to_try -> FitOutcomes], n \in NumBills, b \in BOOLEAN}

InitFit ==
    /\ GAInit("idle", IdleConfigs)
    /\ call \in FitInputs

CallFitModel ==
    /\ call.fn = "fit_model"
    /\ ~call.returned
    /\ call' = [call EXCEPT !.returned = TRUE,
                            !.result = fit_model(call.fits, call.n, call.bpi2400)]
    /\ UNCHANGED gaVars

NextFit == CallFitModel
SpecFit == InitFit /\ [][NextFit]_vars

-----------------------------------------------------------------------------
(* Calibrate.__init__: hpxml_data_error_checking on the bills of the file *)

\* Times are minutes; timedelta.days is the floor of the minutes over a day
MinutesPerDay == 1440
Days(minutes) == minutes \div MinutesPerDay
OneMinute == 1                      \* timedelta(minutes=1)

\* utility_bill_criteria of the configuration, for files with two bills per fuel
min_num_electrical_bills == 2
min_days_of_consumption_data == 59
max_years == 3
max_electrical_bill_days == 35
min_electrical_bill_days == 20
Now == 500 * MinutesPerDay          \* dt.now()

Detail(start, end, consumption, reading) ==
    [StartDateTime |-> start, EndDateTime |-> end, Consumption |-> consumption,
     ReadingType |-> reading]
FuelInfo(fuel, details) == [FuelType |-> fuel, ConsumptionDetail |-> details]

FuelTypesOf(all_fuels) == {all_fuels[i].FuelType : i \in DOMAIN all_fuels}

\* A consecutive check that looks at gaps only
ConsecutiveError_gap_only(details) ==
    IF \E i \in 2 .. Len(details) :
            details[i].StartDateTime - details[i - 1].EndDateTime > OneMinute
    THEN "gap" ELSE "none"

\* "all periods are consecutive, non-overlapping": the first pair that is not
ConsecutiveError(details) ==
    IF \E i \in 2 .. Len(details) :
            \/ details[i].StartDateTime < details[i - 1].EndDateTime
            \/ details[i].StartDateTime - details[i - 1].EndDateTime > OneMinute
    THEN LET i == Min({j \in 2 .. Len(details) :
                        \/ details[j].StartDateTime < details[j - 1].EndDateTime
                        \/ details[j].StartDateTime - details[j - 1].EndDateTime
                                > OneMinute})
         IN  IF details[i].StartDateTime < details[i - 1].EndDateTime
             THEN "overlap" ELSE "gap"
    ELSE "none"

\* any(all(detail.Consumption > 0 for detail in fuel) for fuel in all_fuels)
some_fuel_all_positive(all_fuels) ==
    \E i \in DOMAIN all_fuels :
        \A k \in DOMAIN all_fuels[i].ConsumptionDetail :
            all_fuels[i].ConsumptionDetail[k].Consumption > 0

\* The span and the dates of one fuel satisfy the coverage criteria
covers_enough(details) ==
    /\ Len(details) > 0
    /\ Days(details[Len(details)].EndDateTime - details[1].StartDateTime)
            >= min_days_of_consumption_data
    /\ \A k \in DOMAIN details :
        /\ details[k].StartDateTime <= Now
        /\ details[k].EndDateTime <= Now
        /\ Days(Now - details[k].StartDateTime) <= max_years * 365
        /\ Days(Now - details[k].EndDateTime) <= max_years * 365

bill_days_ok(detail) ==
    LET period_days == Days(detail.EndDateTime - detail.StartDateTime)
    IN  period_days <= max_electrical_bill_days /\ period_days >= min_electrical_bill_days

\* hpxml_data_error_checking: "ok", or the check that raised ValueError.
\* structure_ok stands for the checks that do not read the bill periods (PV,
\* Energy elements, building id, units, equipment fuel types).
hpxml_data_error_checking(all_fuels, structure_ok) ==
    LET E(i) == all_fuels[i]
        D(i) == all_fuels[i].ConsumptionDetail
        elec(i) == E(i).FuelType = "electricity"
    IN  CASE ~structure_ok -> "structure"
          [] \E i, j \in DOMAIN all_fuels : i < j /\ E(i).FuelType = E(j).FuelType
                -> "multiple sections"
          [] ~\E i \in DOMAIN all_fuels : elec(i) -> "electricity required"
          [] \E i \in DOMAIN all_fuels : ConsecutiveError(D(i)) # "none"
                -> ConsecutiveError(D(Min({i \in DOMAIN all_fuels :
                                            ConsecutiveError(D(i)) # "none"})))
          [] ~some_fuel_all_positive(all_fuels) -> "consumption"
          [] \E i \in DOMAIN all_fuels : \E k \in DOMAIN D(i) :
                D(i)[k].ReadingType = "estimate" -> "estimate"
          [] ~\E i \in DOMAIN all_fuels :
                elec(i) /\ Len(D(i)) >= min_num_electrical_bills -> "bill count"
          [] \E f \in FuelTypesOf(all_fuels) :
                ~\E i \in DOMAIN all_fuels : E(i).FuelType = f /\ covers_enough(D(i))
                -> "coverage"
          [] \E i \in DOMAIN all_fuels : elec(i) /\ \E k \in DOMAIN D(i) :
                ~bill_days_ok(D(i)[k]) -> "bill days"
          [] OTHER -> "ok"

\* Calibrate(original_hpxml_filepath): the object exists only when the check passes
construct(all_fuels, structure_ok) ==
    LET error == hpxml_data_error_checking(all_fuels, structure_ok)
    IN  IF error = "ok" THEN [outcome |-> "constructed", bills |-> all_fuels]
        ELSE [outcome |-> "ValueError", check |-> error]

\* The bill files tried: per fuel two bills of 30 days, the second starting
\* gap minutes after the first ends
BillLength == 30 * MinutesPerDay
Gaps == {-1, 0, 1, 2}
Amounts == {0, 5}
TwoBills(fuel, gap, c1, c2, reading) ==
    FuelInfo(fuel, <<Detail(0, BillLength, c1, "actual"),
                     Detail(BillLength + gap, 2 * BillLength + gap, c2, reading)>>)
BillsOf(fuel, readings) ==
    {<<>>} \cup {<<TwoBills(fuel, g, c1, c2, r)>> :
                    g \in Gaps, c1 \in Amounts, c2 \in Amounts, r \in readings}
BillFiles ==
    {e \o g : e \in BillsOf("electricity", {"actual", "estimate"}),
              g \in BillsOf("natural gas", {"actual"})}

InitValidate ==
    /\ GAInit("idle", IdleConfigs)
    /\ \E f \in BillFiles, ok \in BOOLEAN :
        call = [fn |-> "Calibrate", all_fuels |-> f, structure_ok |-> ok,
                returned |-> FALSE, result |-> <<>>]

CallConstruct ==
    /\ call.fn = "Calibrate"
    /\ ~call.returned
    /\ call' = [call EXCEPT !.returned = TRUE,
                            !.result = construct(call.all_fuels, call.structure_ok)]
    /\ UNCHANGED gaVars

NextValidate == CallConstruct
SpecValidate == InitValidate /\ [][NextValidate]_vars

-----------------------------------------------------------------------------
(* adaptive_mutation, statement by statement *)

\* The values worst_end_uses_by_gen can hold when a mutation is called: nothing
\* recorded yet, a key of end_use_param_map, a key it does not have, None
WorstLists ==
    {<<>>, <<None>>, <<"electricity_baseload">>, <<"electricity_heating">>,
     <<"natural gas_heating">>}

MutationInputs ==
    {[fn |-> "adaptive_mutation", at |-> "if", worst_end_uses_by_gen |-> w,
      before |-> ind, individual |-> ind, mutation_indices |-> {}] :
        w \in WorstLists, ind \in generate_random_individual}

InitMutation ==
    /\ GAInit("idle", IdleConfigs)
    /\ call \in MutationInputs

\* "if worst_end_uses_by_gen: ... mutation_indices.update(random.sample(
\* impacted_indices, min(len(impacted_indices), 2)))"
SampleImpacted ==
    /\ call.fn = "adaptive_mutation"
    /\ call.at = "if"
    /\ LET impacted == impacted_indices(call.worst_end_uses_by_gen)
       IN  \E sample \in {S \in SUBSET impacted :
                            Cardinality(S) = BiasedSampleSize(impacted)} :
                call' = [call EXCEPT !.at = "while", !.mutation_indices = sample]
    /\ UNCHANGED gaVars

\* One turn of "while len(mutation_indices) < random.randint(3, 6)" that enters
\* the body: random.randint(0, len(individual) - 1) is added to the set
WhileAdd ==
    /\ call.fn = "adaptive_mutation"
    /\ call.at = "while"
    /\ \E r \in MutationSizes :
        /\ Cardinality(call.mutation_indices) < r
        /\ \E k \in GeneIndices :
            call' = [call EXCEPT !.mutation_indices = call.mutation_indices \cup {k}]
    /\ UNCHANGED gaVars

\* The turn that leaves the while loop, then the for loop over the chosen
\* indices and the return
ForAssign ==
    /\ call.fn = "adaptive_mutation"
    /\ call.at = "while"
    /\ \E r \in MutationSizes :
        /\ ~(Cardinality(call.mutation_indices) < r)
        /\ \E new_val \in NewValues(call.individual,
                                    call.mutation_indices \cap MultiChoiceGenes) :
            call' = [call EXCEPT
                        !.at = "returned",
                        !.individual = adaptive_mutation(call.individual,
                                                         call.mutation_indices, new_val)]
    /\ UNCHANGED gaVars

NextMutation == SampleImpacted \/ WhileAdd \/ ForAssign
SpecMutation == InitMutation /\ [][NextMutation]_vars

\* random.randint gives every index with positive probability at every turn,
\* so a turn that changes the set or leaves the loop is eventually taken
SpecMutationFair ==
    /\ SpecMutation
    /\ WF_vars(SampleImpacted)
    /\ WF_vars(WhileAdd \/ ForAssign)

-----------------------------------------------------------------------------
(* The worst end use of a comparison and the table entry its key finds *)

WorstLoads == [f \in {"electricity", "natural gas"} |->
                    IF f = "electricity" THEN {"heating", "cooling", "baseload"}
                    ELSE {"heating", "baseload"}]
WorstErrors == {0, 1, 5}

\* Comparisons of a building with electricity and natural gas bills
WorstInputs ==
    {[fn |-> "get_worst_abs_err_end_use",
      comparison |-> [f \in {"electricity", "natural gas"} |->
                        [BiasError |-> [l \in WorstLoads[f] |-> 0],
                         AbsoluteError |-> IF f = "electricity" THEN e ELSE g]],
      returned |-> FALSE, worst_key |-> None, impacted |-> {}] :
        e \in [WorstLoads["electricity"] -> WorstErrors],
        g \in [WorstLoads["natural gas"] -> WorstErrors]}

InitWorst ==
    /\ GAInit("idle", IdleConfigs)
    /\ call \in WorstInputs

\* "worst_key = get_worst_abs_err_end_use(comparison);
\*  worst_end_uses_by_gen.append(worst_key)", then what adaptive_mutation finds
\* in end_use_param_map for worst_end_uses_by_gen[-1]
CallWorstEndUse ==
    /\ call.fn = "get_worst_abs_err_end_use"
    /\ ~call.returned
    /\ LET worst_key == get_worst_abs_err_end_use(call.comparison)
       IN  call' = [call EXCEPT !.returned = TRUE,
                                !.worst_key = worst_key,
                                !.impacted = impacted_indices(<<worst_key>>)]
    /\ UNCHANGED gaVars

NextWorst == CallWorstEndUse
SpecWorst == InitWorst /\ [][NextWorst]_vars

-----------------------------------------------------------------------------
(* Properties of run_ga_search *)

Joining == pc \in {"evaluate0", "evaluate"} /\ AllReturned
SomeEvaluateRaised == \E i \in DOMAIN fitnesses : fitnesses[i][1] = <<Inf>>

\* C1: when the evaluation of an individual raises, the join of that generation
\* gives every submitted individual the fitness its evaluation returned ((inf,)
\* for the one that raised) and the run goes on to the next step of the search;
\* no error reaches the caller.
C1_EvaluateExceptionIsolated ==
    [][(Joining /\ SomeEvaluateRaised) =>
        /\ pc' \in {"loop", "finish"}
        /\ ret'.status # "raised"
        /\ \A i \in DOMAIN fitnesses :
            IF pc = "evaluate0"
            THEN pop'[invalid_ind[i]].fitness = fitnesses[i][1]
            ELSE offspring'[invalid_ind[i]].fitness = fitnesses[i][1]]_vars

\* C2: the minimum fitness logged for a generation is never larger than the one
\* logged for the generation before it.
C2_ElitismInvariant ==
    \A g \in 1 .. (Len(logbook) - 1) : logbook[g + 1].min <= logbook[g].min

\* A generation whose selected offspring are all strictly worse than the elite clone
C2_Witness ==
    /\ pc \in {"loop", "finish"}
    /\ gen >= 1
    /\ Len(logbook) = gen + 1
    /\ \A i \in 1 .. (Len(pop) - 1) : better(pop[Len(pop)], pop[i])
    /\ logbook[gen + 1].min = logbook[gen].min

\* The termination criterion as the specification words it: every Bias Error
\* within the bias threshold, or every Absolute Error within its fuel's threshold
AllBiasWithin(comparison) ==
    \A f \in DOMAIN comparison : \A e \in DOMAIN comparison[f].BiasError :
        PyLe(PyAbs(comparison[f].BiasError[e]), bias_error_threshold)
AllAbsWithin(comparison) ==
    \A f \in DOMAIN comparison : \A e \in DOMAIN comparison[f].AbsoluteError :
        PyLe(PyAbs(comparison[f].AbsoluteError[e]),
             IF f = "electricity" THEN abs_error_elec_threshold
             ELSE abs_error_fuel_threshold)
Satisfies(comparison) == AllBiasWithin(comparison) \/ AllAbsWithin(comparison)

\* C3: no further generation is produced once the best individual of the current
\* generation (generation 0 included) satisfies the termination criterion, and a
\* search that stops without a satisfying best individual stops at the limit.
C3_StopsAtFirstSatisfyingGeneration ==
    /\ pc = "loop" => ~Satisfies(best_comp)
    /\ (pc = "finish" /\ ~Satisfies(best_comp)) => gen = Generations

\* C4: a generation whose best individual has every Bias Error within the
\* threshold ends the search there, and what the caller receives holds a true
\* "terminated early" flag next to the population and the best individual.
C4_EarlyTerminationFlagReturned ==
    /\ (pc = "loop" /\ gen >= 1) => ~AllBiasWithin(best_comp)
    /\ (pc = "done" /\ terminated_early) =>
            /\ {"terminated_early", "pop", "best_individual_dict"} \subseteq DOMAIN ret
            /\ ret.terminated_early = TRUE

\* C5: a run that used up its generations without meeting the thresholds has run
\* exactly the configured number of generations and then returns to its caller
\* without raising, whatever arguments it was called with.
C5_BudgetExhaustedCompletesNormally ==
    [][(pc = "finish" /\ ~terminated_early) =>
        /\ gen = Generations
        /\ pc' = "done"
        /\ ret'.status = "returned"]_vars

\* C6: the fitness of the returned individual is no worse than any fitness that
\* was assigned to an individual during the run.
C6_ReturnedIsBestEvaluated ==
    pc = "done" => \A f \in evaluated : hall_of_fame[1].fitness[1] <= f

\* C7: once created the population always has PopulationSize members; after a
\* generation it is PopulationSize - 1 selected individuals plus one elite clone.
C7_PopulationSizeFixed ==
    /\ pc # "start" => Len(pop) = PopulationSize
    /\ (pc \in {"loop", "finish", "done"} /\ gen >= 1) =>
            /\ Len(elite) = 1
            /\ Len(pop) - Len(elite) = PopulationSize - 1
            /\ pop[Len(pop)] = elite[1]

\* The last generation has been selected and the elite appended
C7_Witness ==
    /\ pc = "finish"
    /\ gen = Generations
    /\ gen >= 1
    /\ Len(logbook) = Generations + 1
    /\ Len(pop) = PopulationSize

-----------------------------------------------------------------------------
(* Properties of the bill window, the comparison engine and the regression models *)

\* The sum of one column over the days first .. last of the reference year
DaySum(column, first, last) == SlicedSum(column, first - 1, last)
\* series[label] of a returned Series
ValueOf(series, label) ==
    LET i == CHOOSE j \in DOMAIN series : series[j][1] = label
    IN  series[i][2]

\* C8: a bill whose window wraps the year boundary (start day > end day) gets, in
\* every column, the sum of the daily rows of days start .. 365 plus the sum of
\* the rows of days 1 .. end, each day counted once.
C8_WrappedWindowCoversBothParts ==
    (call.fn = "_calculate_wrapped_total" /\ call.returned /\ call.start > call.end) =>
        /\ Len(call.result) = Len(Columns)
        /\ \A c \in DOMAIN Columns :
            ValueOf(call.result, Columns[c]) =
                DaySum(Columns[c], call.start, DaysInYear) + DaySum(Columns[c], 1, call.end)

\* C9: in a Comparison returned by compare_results or by simplified_annual_usage
\* the Bias Error of an end-use is NaN exactly when the normalized consumption of
\* that end-use is zero.
C9_BiasNaNIffNormalizedZero ==
    (/\ call.fn \in {"compare_results", "simplified_annual_usage"}
     /\ call.returned
     /\ ~call.result.raised) =>
        \A f \in DOMAIN call.result.comparison :
            \A e \in DOMAIN call.result.comparison[f].BiasError :
                IsNaN(call.result.comparison[f].BiasError[e])
                    <=> (call.result.normalized[f][e] = 0)

\* C10: for each model variant, parameter vector and temperature vector, the
\* three columns of predict_disaggregated add up to func at every temperature.
C10_DisaggregationSumsToFunc ==
    (call.fn = "predict_disaggregated" /\ call.returned) =>
        \A i \in DOMAIN call.temperatures :
            call.disaggregated[i].baseload + call.disaggregated[i].heating
                + call.disaggregated[i].cooling = call.predicted[i]

\* A 5-parameter model evaluated on a temperature below its heating balance point
\* and one above its cooling balance point, both terms non-zero
C10_Witness ==
    /\ call.fn = "predict_disaggregated"
    /\ call.returned
    /\ call.variant = "5-parameter"
    /\ \E i, j \in DOMAIN call.temperatures :
        /\ call.disaggregated[i].heating # 0
        /\ call.disaggregated[j].cooling # 0
        /\ call.disaggregated[i].baseload # 0

\* The parameters lie within the fit bounds of their class
WithinBounds(variant, b) ==
    \A k \in DOMAIN b : BOUNDS(variant)[1][k] <= b[k] /\ b[k] <= BOUNDS(variant)[2][k]

\* C11: with parameters inside the fit bounds of the variant, baseload, heating
\* and cooling returned by predict_disaggregated are non-negative at every
\* temperature.
C11_ComponentsNonNegative ==
    (/\ call.fn = "predict_disaggregated"
     /\ call.returned
     /\ WithinBounds(call.variant, call.parameters)) =>
        \A i \in DOMAIN call.temperatures :
            /\ call.disaggregated[i].baseload >= 0
            /\ call.disaggregated[i].heating >= 0
            /\ call.disaggregated[i].cooling >= 0

\* An in-bounds 5-parameter model with a heating day and a cooling day
C11_Witness ==
    /\ call.fn = "predict_disaggregated"
    /\ call.returned
    /\ call.variant = "5-parameter"
    /\ WithinBounds(call.variant, call.parameters)
    /\ \E i, j \in DOMAIN call.temperatures :
        /\ call.disaggregated[i].heating > 0
        /\ call.disaggregated[j].cooling > 0

Fitted(i) == call.fits[i].status = "fit"
NotConverged(i) == call.fits[i].status = "max_evaluations_exceeded"
CvrmseOf(i) == calc_cvrmse(call.fits[i].sse, call.n, models_to_try[i])

C13_AllFailRaisesFitError ==
    (/\ call.fn = "fit_model"
     /\ call.returned
     /\ \A i \in DOMAIN call.fits : NotConverged(i)) =>
        /\ call.result.outcome = "raised"
        /\ call.result.exception = "Bpi2400ModelFitError"

Constructing == call.fn = "Calibrate" /\ call.returned
AllDetails ==
    {<<i, k>> \in (1 .. 2) \X (1 .. 2) :
        i \in DOMAIN call.all_fuels /\ k \in DOMAIN call.all_fuels[i].ConsumptionDetail}
DetailAt(ik) == call.all_fuels[ik[1]].ConsumptionDetail[ik[2]]

\* C14: construction raises the data error whenever some bill period of some
\* fuel has a consumption that is not greater than zero.
C14_NonPositiveConsumptionRejected ==
    (Constructing /\ \E ik \in AllDetails : DetailAt(ik).Consumption <= 0) =>
        call.result.outcome = "ValueError"

\* The gap in minutes between period k and the one before it, for each fuel
GapsOf(i) ==
    {call.all_fuels[i].ConsumptionDetail[k].StartDateTime
        - call.all_fuels[i].ConsumptionDetail[k - 1].EndDateTime :
            k \in 2 .. Len(call.all_fuels[i].ConsumptionDetail)}
AllGaps == UNION {GapsOf(i) : i \in DOMAIN call.all_fuels}

C16_RegressionFitOncePerFuel ==
    \A f \in RegressedFuels : fit_count[f] <= 1

\* C17: when run_ga_search has returned, the temp directory of the best individual
\* is the only evaluation directory of the run that still exists.
C17_OnlyBestDirectoryKept ==
    pc = "done" => fs = {hall_of_fame[1].temp_output_dir}

\* The individuals a join has assigned, after the step that joins them
Joined(individuals) ==
    \A i \in 1 .. (FirstBad(fitnesses) - 1) :
        LET ind == individuals[invalid_ind[i]]
            own == evaluate(cfg.building, cfg.simulate[ind.genes], TempDir(gen, i), FALSE)
        IN  /\ ind.fitness = own[1]
            /\ ind.comparison = own[2]
            /\ ind.temp_output_dir = own[3]
            /\ ind.sim_results = own[4]

\* C18: a generation's evaluations are left only when every worker has returned,
\* whatever the order they returned in; every individual the join assigns then
\* carries the fitness, comparison and directory of the evaluation of its own
\* parameter list, and selection follows only when every submitted individual
\* has been assigned.
C18_ResultsAlignedAndJoined ==
    [][(pc \in {"evaluate0", "evaluate"} /\ pc' # pc)
            => /\ AllReturned
               /\ IF pc = "evaluate0" THEN Joined(pop') ELSE Joined(offspring')
               /\ pc' \in {"loop", "finish"} => FirstBad(fitnesses) > Len(fitnesses)]_vars
C18_Witness ==
    /\ pc \in {"loop", "finish"}
    /\ gen >= 1
    /\ Len(invalid_ind) = 2
    /\ offspring[invalid_ind[1]].genes # offspring[invalid_ind[2]].genes
    /\ offspring[invalid_ind[1]].fitness # offspring[invalid_ind[2]].fitness

-----------------------------------------------------------------------------
(* Properties of adaptive_mutation *)

Mutating == call.fn = "adaptive_mutation"

\* C19: a call of adaptive_mutation returns; the biased draw gives at most 2
\* indices, all of the worst end use's table, and the returned call has chosen
\* between 3 and 6 distinct indices, whatever the worst end use recorded (or none).
C19_MutationChoosesThreeToSix ==
    /\ [](Mutating /\ call.at = "returned"
            => /\ Cardinality(call.mutation_indices) \in 3 .. 6
               /\ call.mutation_indices \subseteq GeneIndices)
    /\ [][Mutating /\ call.at = "if"
            => /\ Cardinality(call'.mutation_indices) <= 2
               /\ call'.mutation_indices \subseteq
                        impacted_indices(call.worst_end_uses_by_gen)]_vars
    /\ ((Mutating /\ call.at = "if") ~> (Mutating /\ call.at = "returned"))
C19_Witness ==
    /\ Mutating
    /\ call.at = "returned"
    /\ call.worst_end_uses_by_gen = <<"electricity_heating">>
    /\ Cardinality(call.mutation_indices) = 6
    /\ Cardinality(call.mutation_indices
                    \cap impacted_indices(call.worst_end_uses_by_gen)) = 2

\* A chosen gene whose value is another one than before the call
Changed(i) == call.individual.genes[i] # call.before.genes[i]

\* C20 as stated: every chosen gene has a value different from the one it had.
C20_ChosenGeneNeverKeepsValue ==
    Mutating /\ call.at = "returned"
        => \A i \in call.mutation_indices : Changed(i)

\* C20, amended: a chosen gene whose choice list holds a value other than its
\* own takes another value of its list; a chosen gene whose list holds no other
\* value keeps its value; a gene that was not chosen keeps its value.
C20_ChosenGeneChangesIfItCan ==
    Mutating /\ call.at = "returned"
        => \A i \in GeneIndices :
            IF i \in call.mutation_indices /\ param_choices_map[i] # {call.before.genes[i]}
            THEN Changed(i) /\ call.individual.genes[i] \in param_choices_map[i]
            ELSE ~Changed(i)
C20_Witness ==
    /\ Mutating
    /\ call.at = "returned"
    /\ \E i \in call.mutation_indices : Changed(i)
    /\ \E i \in call.mutation_indices : ~Changed(i)

-----------------------------------------------------------------------------
(* Properties of the worst end use, the log and the genes of run_ga_search *)

\* The offspring evaluated in the generation that was just joined
EvaluatedOffspring == {offspring[invalid_ind[i]] : i \in DOMAIN invalid_ind}
\* <<key, absolute error>> of every entry of every evaluated offspring
AbsErrorsOfGeneration ==
    UNION {{<<e[1] \o "_" \o e[2], PyAbs(ind.comparison[e[1]].AbsoluteError[e[2]])>> :
                e \in Range(Entries(ind.comparison))} : ind \in EvaluatedOffspring}
AfterGenerationJoin == pc \in {"loop", "finish"} /\ gen >= 1 /\ invalid_ind # <<>>

\* C21: the worst end use recorded for a generation is a (fuel, end-use) key whose
\* absolute error is the largest over all the offspring evaluated in it.
C21_WorstOverAllEvaluatedOffspring ==
    AfterGenerationJoin /\ AbsErrorsOfGeneration # {}
        => \E w \in AbsErrorsOfGeneration :
            /\ w[1] = worst_end_uses_by_gen[Len(worst_end_uses_by_gen)]
            /\ \A x \in AbsErrorsOfGeneration : ~PyGt(x[2], w[2])

\* The (fuel, end-use) combinations end_use_param_map has an entry for
TableCombinations ==
    {<<"electricity", "heating">>, <<"electricity", "cooling">>,
     <<"electricity", "baseload">>, <<"natural gas", "heating">>,
     <<"natural gas", "baseload">>}

\* C22: when the worst end use of a comparison is a combination the end-use table
\* has an entry for, the key recorded for it finds that entry: the next mutations
\* have the indices of the genes listed for it to draw their biased subset from.
C22_WorstKeyFindsTableEntry ==
    call.fn = "get_worst_abs_err_end_use" /\ call.returned
        => \A c \in TableCombinations :
            call.worst_key = c[1] \o "_" \o c[2] => call.impacted # {}

\* The step that joins the evaluations of a generation and goes on to selection
GenerationJoined == pc = "evaluate" /\ pc' \in {"loop", "finish"}

\* C23: in a generation evaluate runs once for each offspring without valid
\* fitness and for no other; a returned result is not computed again; the
\* offspring that were not evaluated keep fitness, comparison and directory, and
\* the generation's record counts the evaluations that ran.
C23_OnlyInvalidOffspringEvaluated ==
    /\ [][GenerationJoined
            => /\ \A j \in DOMAIN offspring :
                    Cardinality({i \in DOMAIN invalid_ind : invalid_ind[i] = j})
                        = IF valid(offspring[j]) THEN 0 ELSE 1
               /\ \A j \in DOMAIN offspring :
                    valid(offspring[j]) => offspring'[j] = offspring[j]
               /\ logbook'[Len(logbook')].gen = gen
               /\ logbook'[Len(logbook')].nevals =
                    Cardinality({i \in DOMAIN fitnesses : fitnesses[i] # Pending})]_vars
    /\ [][pc = "evaluate" /\ pc' = "evaluate"
            => \A i \in DOMAIN fitnesses :
                fitnesses[i] # Pending => fitnesses'[i] = fitnesses[i]]_vars
C23_Witness ==
    /\ pc \in {"loop", "finish"}
    /\ gen >= 1
    /\ Len(invalid_ind) = 1
    /\ Len(offspring) = 2
    /\ logbook[Len(logbook)].nevals = 1
    /\ \E j \in DOMAIN offspring : j # invalid_ind[1] /\ offspring[j].temp_output_dir # NoDir

\* C24: the logbook only grows, by one record at a time and without changing the
\* records it holds; when the loop has stopped at generation gen it holds the
\* records of the generations 0 .. gen, in that order.
C24_LogbookAppendOnly ==
    /\ [](pc \in {"finish", "done"}
            => /\ Len(logbook) = gen + 1
               /\ \A k \in DOMAIN logbook : logbook[k].gen = k - 1)
    /\ [][/\ Len(logbook') \in {Len(logbook), Len(logbook) + 1}
          /\ SubSeq(logbook', 1, Len(logbook)) = logbook]_vars
C24_Witness ==
    /\ pc = "done"
    /\ gen = Generations
    /\ Len(logbook) = Generations + 1
    /\ logbook[Len(logbook)].gen = Generations

\* An entry of the comparison whose Bias Error is NaN
HasNaNBias(comparison) ==
    \E f \in DOMAIN comparison : \E e \in DOMAIN comparison[f].BiasError :
        IsNaN(comparison[f].BiasError[e])

\* C25: a search that terminated early has a best individual whose Bias Errors
\* are all numbers within the threshold (a NaN is not within it), or whose
\* Absolute Errors are all within their thresholds.
C25_NaNBiasNotWithinThreshold ==
    terminated_early
        => \/ AllAbsWithin(best_comp)
           \/ (~HasNaNBias(best_comp) /\ AllBiasWithin(best_comp))

\* Every individual run_ga_search holds: population, offspring, elite, hall of fame
AllIndividuals == Range(pop) \cup Range(offspring) \cup Range(elite) \cup Range(hall_of_fame)

\* C26: every individual of the run has 18 genes, and its gene at position i is a
\* value of the choice list of parameter i.
C26_GenesWithinChoiceLists ==
    \A ind \in AllIndividuals :
        /\ DOMAIN ind.genes = 0 .. 17
        /\ \A i \in DOMAIN ind.genes : ind.genes[i] \in param_choices_map[i]
C26_Witness ==
    /\ pc = "loop"
    /\ gen >= 1
    /\ elite # <<>>
    /\ \E j \in DOMAIN invalid_ind :
            \A k \in DOMAIN elite : offspring[invalid_ind[j]].genes # elite[k].genes
    /\ \E j \in DOMAIN pop : \E k \in DOMAIN pop : pop[j].genes # pop[k].genes

\* C28: a search that terminated early returns an individual whose own comparison
\* meets the termination criteria.
C28_EarlyReturnMeetsCriteria ==
    pc \in {"finish", "done"} /\ terminated_early
        => meets_termination_criteria(hall_of_fame[1].comparison)

-----------------------------------------------------------------------------
(* Properties of compare_results, the bill windows and simplified_annual_usage *)

\* C27: a call of compare_results leaves its annual_model_results argument as it
\* was, and a second call with the same normalized consumption and the same
\* results object returns the comparison of the first.
C27_CompareResultsLeavesArgumentAlone ==
    call.fn = "compare_results" /\ call.returned
        => /\ call.result.annual_model_results = call.annual_model_results
           /\ compare_results(call.normalized_consumption,
                              call.result.annual_model_results).comparison
                = call.result.comparison

\* C29: a bill whose window does not wrap (start day <= end day) gets, in every
\* column, the sum of the daily rows of the days start .. end.
C29_UnwrappedWindowCoversItsDays ==
    (call.fn = "_calculate_wrapped_total" /\ call.returned /\ call.start <= call.end) =>
        \A c \in DOMAIN Columns :
            ValueOf(call.result, Columns[c]) = DaySum(Columns[c], call.start, call.end)

\* The bills of the entry of a fuel, summed and converted from the entry's own
\* unit, as <<numerator, denominator>> of an amount in MBtu
OwnMeasured(fuel, infos) ==
    LET own == infos[CHOOSE j \in DOMAIN infos : infos[j].FuelType = fuel]
        u == UnitToMbtu(delivered_unit(own.UnitofMeasure, fuel))
    IN  <<SumSeq(own.Consumption) * u[1], u[2]>>

\* C30: the measured total simplified_annual_usage apportions for a delivered fuel
\* is the sum of the bills of that fuel's own entry, converted from that entry's
\* unit, wherever the entry stands in the consumption section.
C30_MeasuredTotalOfOwnFuel ==
    (call.fn = "simplified_annual_usage" /\ call.returned /\ ~call.result.raised) =>
        \A f \in DOMAIN call.result.measured :
            call.result.measured[f][1] * OwnMeasured(f, call.infos)[2]
                = OwnMeasured(f, call.infos)[1] * call.result.measured[f][2]

====
